---- MODULE Spec2Model ----
(***************************************************************************)
(* Model of crates/augurs-mstl/src/mstl.rs: the MSTL decomposition.       *)
(*                                                                         *)
(* MSTL::fit normalises the caller's period collection, derives one        *)
(* seasonal window per surviving period and then runs the single-season    *)
(* STL primitive once per (position, outer iteration), maintaining a       *)
(* deseasonalised buffer and a period -> seasonal map.                     *)
(*                                                                         *)
(* f64 values are modelled by integers, i.e. arithmetic is exact.  The STL *)
(* primitive (crate stlrs) is external: it is modelled as a deterministic  *)
(* function of its arguments that returns three sequences of the length of *)
(* its input, or fails.                                                    *)
(***************************************************************************)
EXTENDS Integers, Sequences, FiniteSets, TLC

\* ---------------------------------------------------------------- bounds
\* longest series
MaxN == 6
\* largest value of an observation (observations are 0..MaxVal)
MaxVal == 1
\* largest period value a caller supplies (periods are 0..MaxPeriod)
MaxPeriod == 3
\* longest period collection a caller supplies
MaxPeriods == 3
\* the parameter sets a caller may pass to stl_params are 0..MaxParams
MaxParams == 1

\* ------------------------------------------------------------ error values
\* Error::MSTL("non-seasonal data not supported"), the spec's InvalidInput
InvalidInput == "non-seasonal data not supported"
\* Error::MSTL("no STL fit"), the spec's NoFitProduced
NoFitProduced == "no STL fit"
\* an error of the STL primitive, propagated by `?`
StlError == "stl error"

\* ------------------------------------------------------------- sequences
RECURSIVE SeqsUpTo(_, _)
\* all sequences over S of length at most n
SeqsUpTo(S, n) ==
    IF n = 0 THEN {<<>>}
    ELSE LET shorter == SeqsUpTo(S, n - 1)
         IN  shorter \cup {Append(s, x) : s \in {t \in shorter : Len(t) = n - 1}, x \in S}

RECURSIVE InsertSorted(_, _)
\* x inserted into the ascending sequence s
InsertSorted(x, s) ==
    IF s = <<>> THEN <<x>>
    ELSE IF x <= Head(s) THEN <<x>> \o s
    ELSE <<Head(s)>> \o InsertSorted(x, Tail(s))

SortAsc_noop(s) == s

RECURSIVE SortAsc(_)
\* self.periods.sort_unstable()
SortAsc(s) ==
    IF s = <<>> THEN <<>> ELSE InsertSorted(Head(s), SortAsc(Tail(s)))

\* vec![0.0; n]
Zeros(n) == [k \in 1..n |-> 0]

AddSeq_noop(d, s) == d

\* deseas.iter_mut().zip(s.iter()).for_each(|(d, s)| *d += *s)
AddSeq(d, s) ==
    [k \in 1..Len(d) |-> IF k <= Len(s) THEN d[k] + s[k] ELSE d[k]]

SubtractSeq_noop(d, s) == d

\* deseas.iter_mut().zip(s.iter()).for_each(|(d, s)| *d -= *s)
SubtractSeq(d, s) ==
    [k \in 1..Len(d) |-> IF k <= Len(s) THEN d[k] - s[k] ELSE d[k]]

\* ---------------------------------------------------- period normalisation
\* self.periods.first().unwrap_or(&0)
FirstOr0(ps) == IF ps = <<>> THEN 0 ELSE Head(ps)

ProcessPeriodsInvalid_lt(ps) == IF ps = <<>> THEN TRUE ELSE FirstOr0(ps) < 1

\* self.periods.is_empty() || self.periods.first().unwrap_or(&0) <= &1
ProcessPeriodsInvalid(ps) == IF ps = <<>> THEN TRUE ELSE FirstOr0(ps) <= 1

Retain_strict(ps, n) == SelectSeq(ps, LAMBDA p : p < n \div 2)

Retain_noHalf(ps, n) == SelectSeq(ps, LAMBDA p : p <= n)

RECURSIVE Retain_dedup(_, _)
Retain_dedup(ps, n) ==
    IF ps = <<>> THEN <<>>
    ELSE LET rest == Retain_dedup(Tail(ps), n)
         IN  IF Head(ps) <= n \div 2 /\ (rest = <<>> \/ Head(rest) # Head(ps))
             THEN <<Head(ps)>> \o rest ELSE rest

\* self.periods.retain(|p| *p <= self.y.len() / 2)
Retain(ps, n) == SelectSeq(ps, LAMBDA p : p <= n \div 2)

SeasonalWindows_rank0(ps) == [k \in 1..Len(ps) |-> 7 + 4 * (k - 1)]

\* (0..self.periods.len()).map(|i| 7 + 4 * (i + 1)); index k is i + 1
SeasonalWindows(ps) == [k \in 1..Len(ps) |-> 7 + 4 * ((k - 1) + 1)]

Iterate_always2(ps) == 2

\* if self.periods.len() == 1 { 1 } else { 2 }
Iterate(ps) == IF Len(ps) = 1 THEN 1 ELSE 2

\* periods.iter().copied().map(|p| (p, vec![0.0; y.len()])).collect()
InitSeasonals(ps, n) == [p \in {ps[k] : k \in 1..Len(ps)} |-> Zeros(n)]

\* ------------------------------------------------------- the STL primitive
\* self.stl_params.seasonal_length(window).fit(&series, period), a function
\* of the crate stlrs: a deterministic function of the parameters, the
\* series, the period and the window, which returns a seasonal, a trend and
\* a weight sequence of the length of the series, or fails.  Here it fails
\* for the period fp (0: for none), and the sequences are arbitrary small
\* numbers that depend on every argument.
StlFit(params, fp, series, period, window) ==
    [ok       |-> period # fp,
     seasonal |-> [k \in 1..Len(series) |->
                     ((series[k] + k * period + window + params) % 3) - 1],
     trend    |-> [k \in 1..Len(series) |->
                     (series[k] + period + (window \div 4) + k * (1 + params)) % 2],
     weights  |-> [k \in 1..Len(series) |->
                     (period + (window \div 4) + k + params) % 2]]

NextRes_first(res, fit) == IF res = <<>> THEN <<fit>> ELSE res

\* res = Some(fit)
NextRes(res, fit) == <<fit>>

\* the body of the inner loop, lines 71-90, for the period at 0-based
\* position pos of outer iteration outer
InnerBody(params, fp, ps, ws, outer, pos, seas, des, res) ==
    LET period == ps[pos + 1]
        window == ws[pos + 1]
        added  == AddSeq(des, seas[period])
        fit    == StlFit(params, fp, added, period, window)
        newSeas == [seas EXCEPT ![period] = fit.seasonal]
    IN  [ok        |-> fit.ok,
         seasonals |-> IF fit.ok THEN newSeas ELSE seas,
         deseas    |-> IF fit.ok THEN SubtractSeq(added, newSeas[period]) ELSE added,
         res       |-> IF fit.ok THEN NextRes(res, fit) ELSE res,
         call      |-> [outer |-> outer, pos |-> pos, period |-> period,
                        window |-> window, input |-> added, held |-> seas,
                        ok |-> fit.ok, trend |-> fit.trend, weights |-> fit.weights]]

\* an Err(..) returned by fit
ErrResult(msg) ==
    [kind |-> "Err", msg |-> msg, trend |-> <<>>, seasonal |-> <<>>,
     residuals |-> <<>>, robust_weights |-> <<>>]

\* lines 93-105: res.ok_or_else(..)? and the construction of the result
FinalResult(res, seas, des) ==
    IF res = <<>> THEN ErrResult(NoFitProduced)
    ELSE [kind |-> "Ok", msg |-> "", trend |-> res[1].trend, seasonal |-> seas,
          residuals |-> SubtractSeq(des, res[1].trend),
          robust_weights |-> res[1].weights]

\* ------------------------------------------------- fit as a pure function
RECURSIVE RunLoops(_, _, _, _, _, _, _)
\* the two nested loops, lines 68-92, from the k-th pass on; pass k is outer
\* iteration k \div Len(ps), position k % Len(ps)
RunLoops(params, fp, ps, ws, it, k, st) ==
    IF st.failed \/ k >= it * Len(ps) THEN st
    ELSE LET b == InnerBody(params, fp, ps, ws, k \div Len(ps), k % Len(ps),
                            st.seasonals, st.deseas, st.res)
         IN  RunLoops(params, fp, ps, ws, it, k + 1,
                      [failed |-> ~b.ok, seasonals |-> b.seasonals,
                       deseas |-> b.deseas, res |-> b.res])

\* MSTL::new(series, &mut psIn).stl_params(params).fit(), the value returned
Fit(series, psIn, params, fp) ==
    LET sorted == SortAsc(psIn)
    IN  IF ProcessPeriodsInvalid(sorted) THEN ErrResult(InvalidInput)
        ELSE LET ps == Retain(sorted, Len(series))
                 st == RunLoops(params, fp, ps, SeasonalWindows(ps), Iterate(ps), 0,
                                [failed |-> FALSE,
                                 seasonals |-> InitSeasonals(ps, Len(series)),
                                 deseas |-> series, res |-> <<>>])
             IN  IF st.failed THEN ErrResult(StlError)
                 ELSE FinalResult(st.res, st.seasonals, st.deseas)


\* ------------------------------------------------------------------ state
VARIABLES y, periodsIn, stl_params, failPeriod, periods, pc, seasonal_windows, iterate,
          seasonals, deseas, res, i, idx, calls, result

vars == <<y, periodsIn, stl_params, failPeriod, periods, pc, seasonal_windows, iterate,
          seasonals, deseas, res, i, idx, calls, result>>

\* the series a caller may pass
Series == UNION {[1..n -> 0..MaxVal] : n \in 0..MaxN}

\* the period collections a caller may pass
PeriodInputs == SeqsUpTo(0..MaxPeriod, MaxPeriods)

\* the result before fit has returned
Pending ==
    [kind |-> "none", msg |-> "", trend |-> <<>>, seasonal |-> <<>>,
     residuals |-> <<>>, robust_weights |-> <<>>]

\* MSTL::new(y, &mut periods).stl_params(params), before fit is called
Init ==
    /\ y \in Series
    /\ periodsIn \in PeriodInputs
    /\ periods = periodsIn
    /\ stl_params \in 0..MaxParams
    /\ failPeriod \in {0} \cup 2..MaxPeriod
    /\ pc = "new"
    /\ seasonal_windows = <<>>
    /\ iterate = 0
    /\ seasonals = <<>>
    /\ deseas = <<>>
    /\ res = <<>>
    /\ i = 0
    /\ idx = 0
    /\ calls = <<>>
    /\ result = Pending

\* fit, lines 56-67, when process_periods returns Err: the collection has
\* been sorted, nothing else happened
FitInvalid ==
    /\ pc = "new"
    /\ ProcessPeriodsInvalid(SortAsc(periods))
    /\ periods' = SortAsc(periods)
    /\ result' = ErrResult(InvalidInput)
    /\ pc' = "done"
    /\ UNCHANGED <<y, periodsIn, stl_params, failPeriod, seasonal_windows, iterate,
                   seasonals, deseas, res, i, idx, calls>>

\* fit, lines 56-67, when process_periods returns Ok: the locals of fit
FitStart ==
    /\ pc = "new"
    /\ ~ProcessPeriodsInvalid(SortAsc(periods))
    /\ LET ps == Retain(SortAsc(periods), Len(y))
       IN  /\ periods' = ps
           /\ seasonal_windows' = SeasonalWindows(ps)
           /\ iterate' = Iterate(ps)
           /\ seasonals' = InitSeasonals(ps, Len(y))
    /\ deseas' = y
    /\ res' = <<>>
    /\ i' = 0
    /\ idx' = 0
    /\ pc' = "loop"
    /\ UNCHANGED <<y, periodsIn, stl_params, failPeriod, calls, result>>

\* one pass of the inner loop, lines 70-91, the STL fit succeeding
InnerStep ==
    /\ pc = "loop"
    /\ i < iterate
    /\ idx < Len(periods)
    /\ idx < Len(seasonal_windows)
    /\ LET b == InnerBody(stl_params, failPeriod, periods, seasonal_windows, i, idx,
                          seasonals, deseas, res)
       IN  /\ b.ok
           /\ seasonals' = b.seasonals
           /\ deseas' = b.deseas
           /\ res' = b.res
           /\ calls' = Append(calls, b.call)
    /\ idx' = idx + 1
    /\ UNCHANGED <<y, periodsIn, stl_params, failPeriod, periods, pc, seasonal_windows,
                   iterate, i, result>>

\* one pass of the inner loop, lines 70-83, the STL fit failing: `?` returns
InnerStepErr ==
    /\ pc = "loop"
    /\ i < iterate
    /\ idx < Len(periods)
    /\ idx < Len(seasonal_windows)
    /\ LET b == InnerBody(stl_params, failPeriod, periods, seasonal_windows, i, idx,
                          seasonals, deseas, res)
       IN  /\ ~b.ok
           /\ deseas' = b.deseas
           /\ calls' = Append(calls, b.call)
    /\ result' = ErrResult(StlError)
    /\ pc' = "done"
    /\ UNCHANGED <<y, periodsIn, stl_params, failPeriod, periods, seasonal_windows,
                   iterate, seasonals, res, i, idx>>

\* the zipped iterator is exhausted: the next outer iteration, lines 68-69
OuterNext ==
    /\ pc = "loop"
    /\ i < iterate
    /\ ~(idx < Len(periods) /\ idx < Len(seasonal_windows))
    /\ i' = i + 1
    /\ idx' = 0
    /\ UNCHANGED <<y, periodsIn, stl_params, failPeriod, periods, pc, seasonal_windows,
                   iterate, seasonals, deseas, res, calls, result>>

\* after the loops, lines 93-105
FitReturn ==
    /\ pc = "loop"
    /\ i = iterate
    /\ result' = FinalResult(res, seasonals, deseas)
    /\ pc' = "done"
    /\ UNCHANGED <<y, periodsIn, stl_params, failPeriod, periods, seasonal_windows,
                   iterate, seasonals, deseas, res, i, idx, calls>>

Next ==
    \/ FitInvalid
    \/ FitStart
    \/ InnerStep
    \/ InnerStepErr
    \/ OuterNext
    \/ FitReturn

Spec == Init /\ [][Next]_vars

TypeOK ==
    /\ pc \in {"new", "loop", "done"}
    /\ result.kind \in {"none", "Ok", "Err"}
    /\ (pc = "done") <=> (result.kind # "none")

\* ------------------------------------------------- vocabulary of the claims
RECURSIVE SumKeys(_, _, _)
\* the sum of f[p][k] over the keys p in S
SumKeys(S, f, k) ==
    IF S = {} THEN 0
    ELSE LET p == CHOOSE q \in S : TRUE IN f[p][k] + SumKeys(S \ {p}, f, k)

RECURSIVE SumOcc(_, _, _)
\* the sum of f[p][k] over the elements p of the collection ps, repeats counted
SumOcc(ps, f, k) ==
    IF ps = <<>> THEN 0 ELSE f[Head(ps)][k] + SumOcc(Tail(ps), f, k)

\* how often v occurs in s
Count(s, v) == Cardinality({k \in 1..Len(s) : s[k] = v})

\* s is in ascending order
IsAscending(s) == \A k \in 1..(Len(s) - 1) : s[k] <= s[k + 1]

\* the rearrangements of s
Perms(s) == {[k \in 1..Len(s) |-> s[f[k]]] : f \in Permutations(1..Len(s))}

\* the number of supplied periods that are at most n/2, repeats counted
Surviving == Cardinality({k \in 1..Len(periodsIn) : 2 * periodsIn[k] <= Len(y)})

\* fit has returned a decomposition
Returned == pc = "done" /\ result.kind = "Ok"

\* the supplied collection is empty or has an element <= 1
InputInvalid == periodsIn = <<>> \/ \E k \in 1..Len(periodsIn) : periodsIn[k] <= 1

\* the number of earlier calls of the same outer iteration
RankOfCall(k) == Cardinality({j \in 1..(k - 1) : calls[j].outer = calls[k].outer})

\* ------------------------------------------------------------------ claims

\* C1: when the period collection is non-empty, its minimum is > 1, at least
\* one period is <= n/2 and every call of the STL primitive succeeds, fit
\* returns a decomposition whose trend, seasonal entries, residuals and
\* robust weights all have length n.
C1_FitSucceedsWithLengthN ==
    (/\ pc = "done"
     /\ ~InputInvalid
     /\ Surviving >= 1
     /\ \A k \in 1..Len(calls) : calls[k].ok)
    => /\ result.kind = "Ok"
       /\ Len(result.trend) = Len(y)
       /\ Len(result.residuals) = Len(y)
       /\ Len(result.robust_weights) = Len(y)
       /\ DOMAIN result.seasonal # {}
       /\ \A p \in DOMAIN result.seasonal : Len(result.seasonal[p]) = Len(y)

C1_Witness ==
    /\ Returned
    /\ Len(periodsIn) = 3
    /\ Surviving = 2
    /\ Len(y) >= 4
    /\ Len(result.trend) = Len(y)
    /\ \A p \in DOMAIN result.seasonal : Len(result.seasonal[p]) = Len(y)

\* C2 as stated: trend + the sum of seasonal[p] over the periods p of the
\* collection (repeats counted) + residual is the series.
C2_ReconstructionOverCollection ==
    Returned =>
        \A k \in 1..Len(y) :
            result.trend[k] + SumOcc(periods, result.seasonal, k)
                + result.residuals[k] = y[k]

\* C2 amended: trend + the sum of the entries of the seasonal map (one per
\* distinct surviving period) + residual is the series, at every index.
C2_ReconstructionOverMap ==
    Returned =>
        /\ DOMAIN result.seasonal = {periods[k] : k \in 1..Len(periods)}
        /\ \A k \in 1..Len(y) :
            result.trend[k] + SumKeys(DOMAIN result.seasonal, result.seasonal, k)
                + result.residuals[k] = y[k]

C2_Witness ==
    /\ Returned
    /\ Len(periodsIn) = 3
    /\ Len(periods) = 2
    /\ periods[1] = periods[2]
    /\ \E k \in 1..Len(y) : result.seasonal[periods[1]][k] # 0

\* C3: an empty period collection, or one with an element <= 1, makes fit
\* return the InvalidInput error without any call of the STL primitive.
C3_InvalidInputNoCall ==
    (pc = "done" /\ InputInvalid)
    => /\ result.kind = "Err"
       /\ result.msg = InvalidInput
       /\ calls = <<>>

C3_Witness ==
    /\ pc = "done"
    /\ result.msg = InvalidInput
    /\ \E k \in 1..Len(periodsIn) : periodsIn[k] = 1
    /\ \E k \in 1..Len(periodsIn) : periodsIn[k] > 1 /\ 2 * periodsIn[k] <= Len(y)

\* C4: a non-empty collection of periods that are all > 1 and all > n/2 makes
\* fit return the NoFitProduced error, which differs from InvalidInput, with
\* no call of the STL primitive and no decomposition.
C4_NoFitProduced ==
    (/\ pc = "done"
     /\ ~InputInvalid
     /\ Surviving = 0)
    => /\ result.kind = "Err"
       /\ result.msg = NoFitProduced
       /\ result.msg # InvalidInput
       /\ calls = <<>>
       /\ result.trend = <<>> /\ result.residuals = <<>>

C4_Witness ==
    /\ pc = "done"
    /\ result.msg = NoFitProduced
    /\ Len(periodsIn) = 2
    /\ Len(y) >= 4

\* C5: fit on any rearrangement of the supplied periods returns the same
\* outcome (the same error or an equal decomposition).
C5_OrderOfPeriodsIrrelevant ==
    pc = "done" => \A q \in Perms(periodsIn) : Fit(y, q, stl_params, failPeriod) = result

C5_Witness ==
    /\ Returned
    /\ Len(periodsIn) = 2
    /\ periodsIn[1] > periodsIn[2]
    /\ Len(periods) = 2

\* C6: the returned trend and robust weights are those of the last call of the
\* STL primitive, which is the call for the largest surviving period in the
\* last outer iteration; calls are in ascending outer iteration and, within
\* one, in ascending period.
C6_LastFitWins ==
    /\ \A a \in 1..Len(calls) : \A b \in (a + 1)..Len(calls) :
          /\ calls[a].outer <= calls[b].outer
          /\ calls[a].outer = calls[b].outer => calls[a].period <= calls[b].period
    /\ Returned =>
          /\ calls # <<>>
          /\ LET last == calls[Len(calls)]
             IN  /\ result.trend = last.trend
                 /\ result.robust_weights = last.weights
                 /\ \A k \in 1..Len(periodsIn) :
                       2 * periodsIn[k] <= Len(y) => periodsIn[k] <= last.period
                 /\ \E k \in 1..Len(periodsIn) : periodsIn[k] = last.period
                 /\ 2 * last.period <= Len(y)
                 /\ \A a \in 1..Len(calls) : calls[a].outer <= last.outer

C6_Witness ==
    /\ Returned
    /\ Len(calls) = 4
    /\ calls[1].period < calls[2].period
    /\ calls[1].trend # calls[4].trend
    /\ calls[2].trend # calls[4].trend

\* C7: a completed run has 1 outer iteration when exactly one period
\* survived and 2 otherwise, with exactly one call of the STL primitive per
\* (position of a surviving period, outer iteration); a single surviving
\* period means one call and a seasonal map with one entry.
C7_CallsPerPeriodAndIteration ==
    LET outers == IF Surviving = 1 THEN 1 ELSE 2
    IN  /\ \A a \in 1..Len(calls) : \A b \in (a + 1)..Len(calls) :
              <<calls[a].outer, calls[a].pos>> # <<calls[b].outer, calls[b].pos>>
        /\ Returned =>
              /\ Len(calls) = outers * Surviving
              /\ \A o \in 0..(outers - 1) : \A r \in 0..(Surviving - 1) :
                    \E a \in 1..Len(calls) :
                        /\ calls[a].outer = o
                        /\ calls[a].pos = r
                        /\ calls[a].period = periods[r + 1]
              /\ Surviving = 1 =>
                    /\ Len(calls) = 1
                    /\ Cardinality(DOMAIN result.seasonal) = 1

C7_Witness ==
    /\ Returned
    /\ Surviving = 1
    /\ Len(periodsIn) = 2
    /\ Len(calls) = 1

\* C8: the call for the period of 0-based rank r among the surviving periods
\* uses the seasonal window 7 + 4 * (r + 1), an odd number, in every outer
\* iteration, whatever the period's value and whatever was filtered out.
C8_WindowByRank ==
    \A k \in 1..Len(calls) :
        /\ calls[k].window = 7 + 4 * (RankOfCall(k) + 1)
        /\ calls[k].window % 2 = 1
        /\ calls[k].period = SortAsc(periodsIn)[RankOfCall(k) + 1]

C8_Witness ==
    /\ Len(calls) = 6
    /\ calls[6].outer = 1
    /\ calls[6].window = 19
    /\ calls[3].window = 19
    /\ calls[4].window = 11
    /\ Len(periodsIn) = 3

\* C9: unless normalisation fails with InvalidInput, the caller's collection
\* is, once fit has returned, the supplied periods <= n/2 in ascending order,
\* each as often as it was supplied, and nothing else.
C9_PeriodsSortedAndFiltered ==
    (pc = "done" /\ result.msg # InvalidInput)
    => /\ IsAscending(periods)
       /\ \A v \in {periods[k] : k \in 1..Len(periods)}
                   \cup {periodsIn[k] : k \in 1..Len(periodsIn)} :
             Count(periods, v) = IF 2 * v <= Len(y) THEN Count(periodsIn, v) ELSE 0

C9_Witness ==
    /\ pc = "done"
    /\ result.msg # InvalidInput
    /\ periodsIn = <<3, 2, 2>>
    /\ periods = <<2, 2>>

\* C10: the series passed to the STL primitive for a period p is the original
\* series minus the held seasonal estimates of the other periods of the map,
\* and between passes of the inner loop the deseasonalised buffer is the
\* original series minus all entries of the seasonal map.
C10_DeseasonalisedInput ==
    /\ \A c \in 1..Len(calls) :
          /\ Len(calls[c].input) = Len(y)
          /\ \A k \in 1..Len(y) :
                calls[c].input[k] =
                    y[k] - SumKeys(DOMAIN calls[c].held \ {calls[c].period},
                                   calls[c].held, k)
    /\ pc = "loop" =>
          /\ Len(deseas) = Len(y)
          /\ \A k \in 1..Len(y) :
                deseas[k] = y[k] - SumKeys(DOMAIN seasonals, seasonals, k)

C10_Witness ==
    /\ pc = "loop"
    /\ Len(calls) = 4
    /\ calls[4].outer = 1
    /\ calls[3].period # calls[4].period
    /\ \E k \in 1..Len(y) : calls[4].held[calls[4].period][k] # 0
    /\ \E k \in 1..Len(y) : calls[4].held[calls[3].period][k] # 0

====
